---- MODULE Spec2Model ----
(***************************************************************************)
(* A model of nginx_log_chat.py: the access-log line pattern, the loader,  *)
(* the summary / anomaly computation over the parsed entries and the       *)
(* interactive question loop.                                              *)
(*                                                                         *)
(* Text is a sequence of one-character strings, so that matching, slicing  *)
(* and substring tests are computed and not assumed.                       *)
(***************************************************************************)
EXTENDS Integers, Sequences, FiniteSets, TLC

VARIABLES
    pc,           \* position of the program
    source,       \* the file at ACCESS_LOG: [status, lines]
    limit,        \* the argument of parse_nginx_logs
    tie,          \* how the build's sort orders equal counts
    logs,         \* the list parse_nginx_logs returned
    df,           \* the DataFrame of the entries
    typed,        \* what the operator typed at the prompt of this turn
    q,            \* the stripped input of this turn
    corrected_q,  \* correct_spelling(q)
    summary,      \* generate_summary(df) of this turn
    anomalies,    \* detect_anomalies(df) of this turn
    tables,       \* the tables of this turn, when shown
    answer,       \* what ask_ai returned
    backend,      \* the calls of subprocess.run: the prompt, how it ended
    turns,        \* inputs read so far
    console,      \* what the process has printed, oldest first
    exitStatus    \* the status the process ended with, -1 while it runs

vars == <<pc, source, limit, tie, logs, df, typed, q, corrected_q, summary,
          anomalies, tables, answer, backend, turns, console, exitStatus>>

----------------------------------------------------------------------------
(* Bounds of the model.                                                    *)

MaxLines == 3
MaxLimit == 3
MaxStore == 1
MaxTurns == 2
MaxRows == 4
MaxKeys == 11

----------------------------------------------------------------------------
(* Characters and text helpers.                                            *)

SP == " "
DQ == "\""

Alphabet == {SP, "-", "[", "]", DQ, "0", "2", "4", "5", "3", "7",
             "a", "b", "c", "d", "G", "H", "/", "x", "m"}

Digit == {"0", "2", "3", "4", "5", "7"}

NonSpace == Alphabet \ {SP}

SetMax(S) == CHOOSE x \in S : \A y \in S : y <= x
SetMin(S) == CHOOSE x \in S : \A y \in S : x <= y

----------------------------------------------------------------------------
(* LOG_PATTERN.  An item is a set of alternatives; an alternative matches  *)
(* lo characters of class cls, or lo and more when many is TRUE.           *)

One(c) == {[cls |-> {c}, lo |-> 1, many |-> FALSE]}
Plus(C) == {[cls |-> C, lo |-> 1, many |-> TRUE]}
Star(C) == {[cls |-> C, lo |-> 0, many |-> TRUE]}

LOG_PATTERN ==
    << Plus(NonSpace),                                   \* 1  ip
       One(SP), One("-"), One(SP),
       Plus(NonSpace),                                   \* 5  user
       One(SP), One("["),
       Plus(Alphabet \ {"]"}),                           \* 8  date
       One("]"), One(SP), One(DQ),
       Plus(NonSpace),                                   \* 12 method
       One(SP),
       Plus(NonSpace),                                   \* 14 url
       One(SP),
       Plus(NonSpace),                                   \* 16 protocol
       One(DQ), One(SP),
       {[cls |-> Digit, lo |-> 3, many |-> FALSE]},      \* 19 status
       One(SP),
       Plus(Digit) \cup One("-"),                        \* 21 size
       One(SP), One(DQ),
       Star(Alphabet \ {DQ}),                            \* 24 referrer
       One(DQ), One(SP), One(DQ),
       Star(Alphabet \ {DQ}),                            \* 28 agent
       One(DQ) >>

NItems == Len(LOG_PATTERN)

Fits(item, s) ==
    \E alt \in item :
        /\ IF alt.many THEN Len(s) >= alt.lo ELSE Len(s) = alt.lo
        /\ \A j \in 1..Len(s) : s[j] \in alt.cls

RECURSIVE MatchFrom(_, _, _, _)
(* Items k.. of the pattern match line from position i; when anchored the  *)
(* match has to use the line up to its end.                                *)
MatchFrom(line, k, i, anchored) ==
    IF k > NItems
    THEN (~anchored) \/ i = Len(line) + 1
    ELSE \E n \in 0..(Len(line) - i + 1) :
            /\ Fits(LOG_PATTERN[k], SubSeq(line, i, i + n - 1))
            /\ MatchFrom(line, k + 1, i + n, anchored)

RECURSIVE Spans(_, _, _)
(* The text each item takes: every quantifier is greedy, so an item takes  *)
(* the longest text that lets the rest of the pattern match.               *)
Spans(line, k, i) ==
    IF k > NItems
    THEN << >>
    ELSE LET n == SetMax({m \in 0..(Len(line) - i + 1) :
                            /\ Fits(LOG_PATTERN[k], SubSeq(line, i, i + m - 1))
                            /\ MatchFrom(line, k + 1, i + m, FALSE)})
         IN  <<SubSeq(line, i, i + n - 1)>> \o Spans(line, k + 1, i + n)

NoMatch == [matched |-> FALSE]

(* LOG_PATTERN.search(line): the leftmost position a match starts at.       *)
Search(line) ==
    LET starts == {s \in 1..Len(line) : MatchFrom(line, 1, s, FALSE)}
    IN  IF starts = {}
        THEN NoMatch
        ELSE LET g == Spans(line, 1, SetMin(starts))
             IN  [matched |-> TRUE,
                  groupdict |->
                    [ip |-> g[1], user |-> g[5], date |-> g[8],
                     method |-> g[12], url |-> g[14], protocol |-> g[16],
                     status |-> g[19], size |-> g[21],
                     referrer |-> g[24], agent |-> g[28]]]

----------------------------------------------------------------------------
(* parse_nginx_logs.                                                       *)

(* readlines()[-limit:] : Python's slice from a negative index; -0 is 0,   *)
(* the index of the first line.                                            *)
LastLines(lines, lim) ==
    LET first == IF lim = 0 THEN 1
                 ELSE IF lim >= Len(lines) THEN 1
                 ELSE Len(lines) - lim + 1
    IN  SubSeq(lines, first, Len(lines))

RECURSIVE Entries(_)
Entries(lines) ==
    IF lines = << >>
    THEN << >>
    ELSE LET m == Search(Head(lines))
         IN  (IF m.matched THEN <<m.groupdict>> ELSE << >>) \o Entries(Tail(lines))

----------------------------------------------------------------------------
(* Log lines the model reads.                                              *)

T(c) == <<c>>

(* An entry with the given ip, url and status; the other fields fixed.     *)
Rec(ip, url, status) ==
    [ip |-> ip, user |-> T("-"), date |-> T("d"), method |-> T("G"),
     url |-> url, protocol |-> T("H"), status |-> status, size |-> T("7"),
     referrer |-> T("-"), agent |-> T("m")]

(* The access-log line of an entry, in the format LOG_PATTERN reads.       *)
Render(r) ==
    r.ip \o <<SP, "-", SP>> \o r.user \o <<SP, "[">> \o r.date \o
    <<"]", SP, DQ>> \o r.method \o <<SP>> \o r.url \o <<SP>> \o r.protocol \o
    <<DQ, SP>> \o r.status \o <<SP>> \o r.size \o <<SP, DQ>> \o r.referrer \o
    <<DQ, SP, DQ>> \o r.agent \o <<DQ>>

S200 == <<"2", "0", "0">>
S404 == <<"4", "0", "4">>
S500 == <<"5", "0", "0">>
S503 == <<"5", "0", "3">>

BaseLine == Render(Rec(T("a"), T("/"), S200))

Malformed == <<"b", "a", "d", SP, "x">>

(* Lines one edit away from a well-formed line.                            *)
DelAt(s, i) == SubSeq(s, 1, i - 1) \o SubSeq(s, i + 1, Len(s))
InsAt(s, i, c) == SubSeq(s, 1, i - 1) \o <<c>> \o SubSeq(s, i, Len(s))

EditChars == {SP, DQ, "]", "0", "x"}

EditedLines ==
    {DelAt(BaseLine, i) : i \in 1..Len(BaseLine)} \cup
    {InsAt(BaseLine, i, c) : i \in 1..(Len(BaseLine) + 1), c \in EditChars}

FileLines ==
    {BaseLine,
     Render(Rec(T("b"), <<"/", "x">>, S500)),
     Render(Rec(T("a"), T("/"), S503)),
     Malformed}

SeqsUpTo(S, n) == UNION {[1..k -> S] : k \in 0..n}

Files == SeqsUpTo(FileLines, MaxLines) \cup {<<l>> : l \in EditedLines}

Sources ==
    {[status |-> "ok", lines |-> f] : f \in Files} \cup
    {[status |-> "missing", lines |-> << >>],
     [status |-> "unreadable", lines |-> << >>]}

----------------------------------------------------------------------------
(* pandas: Series.value_counts(), head(n), to_dict().  A mapping is kept   *)
(* as the sequence of its <<key, value>> pairs, in the mapping's order.    *)

Column(frame, f) == [i \in DOMAIN frame |-> frame[i][f]]

RECURSIVE Distinct(_)
(* The values of a column, each once, in the order they first appear.      *)
Distinct(col) ==
    IF col = << >>
    THEN << >>
    ELSE <<Head(col)>> \o
         SelectSeq(Distinct(Tail(col)), LAMBDA x : x # Head(col))

Count(col, k) == Cardinality({i \in DOMAIN col : col[i] = k})

(* What the build's sort does with equal counts.  value_counts sorts the   *)
(* counts with numpy's quicksort, which is not stable: the order of equal  *)
(* counts is the build's choice, the same on every call.                   *)
TieOrders == {"first_seen", "last_seen"}

RECURSIVE SortDescending(_, _)
SortDescending(pairs, t) ==
    IF pairs = << >>
    THEN << >>
    ELSE LET top == SetMax({pairs[i][2] : i \in DOMAIN pairs})
             cand == {i \in DOMAIN pairs : pairs[i][2] = top}
             pick == IF t = "first_seen" THEN SetMin(cand) ELSE SetMax(cand)
         IN  <<pairs[pick]>> \o SortDescending(DelAt(pairs, pick), t)

(* The count of each value, in the order the values first appear: the     *)
(* order of the hash table value_counts counts with.                       *)
Counts(col) ==
    LET keys == Distinct(col)
    IN  [i \in DOMAIN keys |-> <<keys[i], Count(col, keys[i])>>]

ValueCounts(col, t) == SortDescending(Counts(col), t)

HeadN(s, n) == SubSeq(s, 1, IF n < Len(s) THEN n ELSE Len(s))

----------------------------------------------------------------------------
(* generate_summary and detect_anomalies.                                  *)

(* generate_summary with value_counts(sort=False) for the status counts.    *)
generate_summary_unsorted(frame, t) ==
    [total_requests |-> Len(frame),
     status_counts |-> Counts(Column(frame, "status")),
     top_ips |-> HeadN(ValueCounts(Column(frame, "ip"), t), 3),
     top_urls |-> HeadN(ValueCounts(Column(frame, "url"), t), 3)]

(* generate_summary with head(3) taken of the counts before they are       *)
(* sorted.                                                                 *)
generate_summary_head_first(frame, t) ==
    [total_requests |-> Len(frame),
     status_counts |-> ValueCounts(Column(frame, "status"), t),
     top_ips |-> HeadN(Counts(Column(frame, "ip")), 3),
     top_urls |-> HeadN(Counts(Column(frame, "url")), 3)]

generate_summary(frame, t) ==
    [total_requests |-> Len(frame),
     status_counts |-> ValueCounts(Column(frame, "status"), t),
     top_ips |-> HeadN(ValueCounts(Column(frame, "ip"), t), 3),
     top_urls |-> HeadN(ValueCounts(Column(frame, "url"), t), 3)]

K5xx == <<"5", "x", "x", "_", "e", "r", "r", "o", "r", "s">>

StartsWith5(s) == Len(s) >= 1 /\ s[1] = "5"

(* detect_anomalies without the filter on the first character.             *)
detect_anomalies_unfiltered(frame, t) ==
    LET error_counts == ValueCounts(Column(frame, "status"), t)
    IN  IF error_counts # << >>
        THEN << <<K5xx, error_counts>> >>
        ELSE << >>

detect_anomalies(frame, t) ==
    LET error_counts ==
            ValueCounts(SelectSeq(Column(frame, "status"), StartsWith5), t)
    IN  IF error_counts # << >>
        THEN << <<K5xx, error_counts>> >>
        ELSE << >>

(* The three tables of the loop body.                                      *)
Tables(frame, t) ==
    [status_counts |-> ValueCounts(Column(frame, "status"), t),
     top_ips |-> HeadN(ValueCounts(Column(frame, "ip"), t), 10),
     top_urls |-> HeadN(ValueCounts(Column(frame, "url"), t), 10)]

----------------------------------------------------------------------------
(* Text operations of the loop: strip(), lower(), the in operator.         *)

UpperCase == <<"A", "B", "C", "D", "E", "F", "G", "H", "I", "J", "K", "L", "M", "N", "O", "P", "Q", "R", "S", "T", "U", "V", "W", "X", "Y", "Z">>
LowerCase == <<"a", "b", "c", "d", "e", "f", "g", "h", "i", "j", "k", "l", "m", "n", "o", "p", "q", "r", "s", "t", "u", "v", "w", "x", "y", "z">>

LowerChar(c) ==
    IF \E i \in DOMAIN UpperCase : UpperCase[i] = c
    THEN LowerCase[CHOOSE i \in DOMAIN UpperCase : UpperCase[i] = c]
    ELSE c

Lower(s) == [i \in DOMAIN s |-> LowerChar(s[i])]

RECURSIVE LStrip(_)
LStrip(s) == IF s # << >> /\ Head(s) = SP THEN LStrip(Tail(s)) ELSE s

RECURSIVE RStrip(_)
RStrip(s) ==
    IF s # << >> /\ s[Len(s)] = SP THEN RStrip(SubSeq(s, 1, Len(s) - 1)) ELSE s

Strip(s) == RStrip(LStrip(s))

Contains(s, sub) ==
    \E i \in 1..(Len(s) - Len(sub) + 1) : SubSeq(s, i, i + Len(sub) - 1) = sub

WExit == <<"e", "x", "i", "t">>
WQuit == <<"q", "u", "i", "t">>
WAnomaly == <<"a", "n", "o", "m", "a", "l", "y">>
TableWords == {<<"s", "t", "a", "t", "u", "s">>, <<"i", "p">>, <<"u", "r", "l">>, <<"t", "a", "b", "l", "e">>, <<"t", "o", "p">>}

(* The exit test without lower().                                          *)
IsExitSameCase(text) == text \in {WExit, WQuit}

(* q.lower() in ["exit", "quit"]                                           *)
IsExit(text) == Lower(text) \in {WExit, WQuit}

(* The anomaly test without lower().                                       *)
WantsAnomaliesSameCase(text) == Contains(text, WAnomaly)

(* "anomaly" in corrected_q.lower()                                        *)
WantsAnomalies(text) == Contains(Lower(text), WAnomaly)

(* any(word in corrected_q.lower() for word in [...])                      *)
WantsTables(text) == \E w \in TableWords : Contains(Lower(text), w)

(* What the operator types.                                                *)
Inputs ==
    {<<"e", "x", "i", "t">>,
     <<" ", "Q", "U", "I", "T", " ">>,
     <<"e", "x", "i", "t", "s">>,
     <<"A", "n", "o", "m", "a", "l", "y">>,
     <<"s", "h", "i", "p">>,
     <<"t", "o", "p", " ", "a", "n", "o", "m", "a", "l", "y">>,
     <<"a", "n", "o", "m", "o", "l", "y">>}

(* correct_spelling: TextBlob's corrector, an opaque filter.  It leaves    *)
(* the text or replaces it by its dictionary's nearest text.               *)
SpellTable == {<<<<"a", "n", "o", "m", "o", "l", "y">>, <<"a", "n", "o", "m", "a", "l", "y">>>>, <<<<"s", "h", "i", "p">>, <<"s", "h", "o", "p">>>>}

correct_spelling(text) == {text} \cup {p[2] : p \in {r \in SpellTable : r[1] = text}}

----------------------------------------------------------------------------
(* Messages the process prints: the panels of box_print, and the          *)
(* traceback of an exception nothing catches.                              *)

Msg(kind, body) == [kind |-> kind, body |-> body]

MsgNotFound == Msg("log file not found", << >>)
MsgNoLogs == Msg("no logs parsed", << >>)
MsgTraceback == Msg("traceback", << >>)
MsgBanner == Msg("banner", << >>)
MsgGoodbye == Msg("goodbye", << >>)
MsgNoAnomalies == Msg("no major anomalies", << >>)

(* The sentinel answers of ask_ai.                                         *)
TimedOut == <<"timed out">>
NotInstalled == <<"ollama not found">>

(* What `ollama run` prints when it runs to its end, stripped.             *)
Stdouts == {<<"text">>}

NoSummary ==
    [total_requests |-> 0, status_counts |-> << >>, top_ips |-> << >>,
     top_urls |-> << >>]

NoTables == [status_counts |-> << >>, top_ips |-> << >>, top_urls |-> << >>]

----------------------------------------------------------------------------
(* parse_nginx_logs(limit): open() raises FileNotFoundError for a missing  *)
(* file, which is caught and reported, and another OSError for a file that *)
(* cannot be read, which nothing catches.                                  *)

parse_nginx_logs(src, lim) ==
    IF src.status = "missing"
    THEN << >>
    ELSE Entries(LastLines(src.lines, lim))

ParseNginxLogs ==
    /\ pc = "start"
    /\ source.status # "unreadable"
    /\ logs' = parse_nginx_logs(source, limit)
    /\ console' = IF source.status = "missing"
                  THEN Append(console, MsgNotFound)
                  ELSE console
    /\ pc' = "loaded"
    /\ UNCHANGED <<source, limit, tie, df, typed, q, corrected_q, summary, anomalies,
                   tables, answer, backend, turns, exitStatus>>

OpenFails ==
    /\ pc = "start"
    /\ source.status = "unreadable"
    /\ console' = Append(console, MsgTraceback)
    /\ exitStatus' = 1
    /\ pc' = "crashed"
    /\ UNCHANGED <<source, limit, tie, logs, df, typed, q, corrected_q, summary,
                   anomalies, tables, answer, backend, turns>>

----------------------------------------------------------------------------
(* The main program.                                                       *)

(* The start of the program without the test of the loaded list.          *)
NoLogsUnchecked(entries) == FALSE

(* if not logs: box_print(...); exit(1)                                    *)
NoLogs(entries) == entries = << >>

ExitNoLogs ==
    /\ pc = "loaded"
    /\ NoLogs(logs)
    /\ console' = Append(console, MsgNoLogs)
    /\ exitStatus' = 1
    /\ pc' = "exited"
    /\ UNCHANGED <<source, limit, tie, logs, df, typed, q, corrected_q, summary,
                   anomalies, tables, answer, backend, turns>>

(* df = pd.DataFrame(logs); banner()                                       *)
Startup ==
    /\ pc = "loaded"
    /\ ~NoLogs(logs)
    /\ df' = logs
    /\ console' = Append(console, MsgBanner)
    /\ pc' = "prompt"
    /\ UNCHANGED <<source, limit, tie, logs, typed, q, corrected_q, summary, anomalies,
                   tables, answer, backend, turns, exitStatus>>

(* q = console.input(...).strip()                                          *)
ReadInput ==
    /\ pc = "prompt"
    /\ turns < MaxTurns
    /\ \E text \in Inputs :
          /\ typed' = text
          /\ q' = Strip(text)
    /\ turns' = turns + 1
    /\ pc' = "input"
    /\ UNCHANGED <<source, limit, tie, logs, df, corrected_q, summary, anomalies,
                   tables, answer, backend, console, exitStatus>>

(* if q.lower() in ["exit", "quit"]: box_print(goodbye); break             *)
Quit ==
    /\ pc = "input"
    /\ IsExit(q)
    /\ console' = Append(console, MsgGoodbye)
    /\ exitStatus' = 0
    /\ pc' = "exited"
    /\ UNCHANGED <<source, limit, tie, logs, df, typed, q, corrected_q, summary,
                   anomalies, tables, answer, backend, turns>>

(* corrected_q = correct_spelling(q), shown when it differs from q         *)
CorrectSpelling ==
    /\ pc = "input"
    /\ ~IsExit(q)
    /\ \E c \in correct_spelling(q) :
          /\ corrected_q' = c
          /\ console' = IF c # q
                        THEN Append(console, Msg("corrected input", c))
                        ELSE console
    /\ pc' = "summarize"
    /\ UNCHANGED <<source, limit, tie, logs, df, typed, q, summary, anomalies, tables,
                   answer, backend, turns, exitStatus>>

(* summary = generate_summary(df); anomalies = detect_anomalies(df)        *)
Summarize ==
    /\ pc = "summarize"
    /\ summary' = generate_summary(df, tie)
    /\ anomalies' = detect_anomalies(df, tie)
    /\ pc' = "anomalies"
    /\ UNCHANGED <<source, limit, tie, logs, df, typed, q, corrected_q, tables, answer,
                   backend, turns, console, exitStatus>>

(* the anomaly panel: shown when the question asks for it                  *)
ShowAnomalies ==
    /\ pc = "anomalies"
    /\ console' = IF WantsAnomalies(corrected_q)
                  THEN Append(console,
                              IF anomalies # << >>
                              THEN Msg("anomalies detected", anomalies)
                              ELSE MsgNoAnomalies)
                  ELSE console
    /\ pc' = "tables"
    /\ UNCHANGED <<source, limit, tie, logs, df, typed, q, corrected_q, summary,
                   anomalies, tables, answer, backend, turns, exitStatus>>

(* the status, IP and URL tables: shown when the question asks for them    *)
ShowTables ==
    /\ pc = "tables"
    /\ IF WantsTables(corrected_q)
       THEN /\ tables' = Tables(df, tie)
            /\ console' = console \o
                  << Msg("status codes", Tables(df, tie).status_counts),
                     Msg("top ips", Tables(df, tie).top_ips),
                     Msg("top urls", Tables(df, tie).top_urls) >>
       ELSE /\ tables' = tables
            /\ console' = console
    /\ pc' = "ask"
    /\ UNCHANGED <<source, limit, tie, logs, df, typed, q, corrected_q, summary,
                   anomalies, answer, backend, turns, exitStatus>>

(* ask_ai: one subprocess.run under a timeout of 60 seconds.  The call     *)
(* returns the model's output, or raises TimeoutExpired, or raises         *)
(* FileNotFoundError when there is no ollama executable.                   *)
BackendOutcomes ==
    {[kind |-> "ran", stdout |-> o] : o \in Stdouts} \cup
    {[kind |-> "timeout", stdout |-> << >>],
     [kind |-> "missing", stdout |-> << >>]}

(* ask_ai without the handler of TimeoutExpired returning its sentinel.     *)
ask_ai_timeout_unnamed(outcome) ==
    IF outcome.kind = "missing" THEN NotInstalled ELSE outcome.stdout

ask_ai(outcome) ==
    IF outcome.kind = "timeout" THEN TimedOut
    ELSE IF outcome.kind = "missing" THEN NotInstalled
    ELSE outcome.stdout

AskAI ==
    /\ pc = "ask"
    /\ \E outcome \in BackendOutcomes :
          /\ backend' = Append(backend,
                                [prompt |-> <<summary, anomalies, corrected_q>>,
                                 ended |-> outcome.kind])
          /\ answer' = ask_ai(outcome)
          /\ console' = Append(console, Msg("answer", ask_ai(outcome)))
    /\ pc' = "prompt"
    /\ UNCHANGED <<source, limit, tie, logs, df, typed, q, corrected_q, summary,
                   anomalies, tables, turns, exitStatus>>

----------------------------------------------------------------------------
(* The specifications.                                                     *)

Fresh ==
    /\ logs = << >>
    /\ typed = << >>
    /\ q = << >>
    /\ summary = NoSummary
    /\ anomalies = << >>
    /\ tables = NoTables
    /\ answer = << >>
    /\ backend = << >>
    /\ turns = 0
    /\ console = << >>
    /\ exitStatus = -1

(* The program as it is run: parse_nginx_logs() with its default limit.    *)
LOG_LIMIT == 500

StoreLines ==
    {BaseLine, Render(Rec(T("b"), <<"/", "x">>, S500)), Malformed}

Init ==
    /\ pc = "start"
    /\ source \in
          {[status |-> "ok", lines |-> f] : f \in SeqsUpTo(StoreLines, MaxStore)}
          \cup {[status |-> "missing", lines |-> << >>],
                [status |-> "unreadable", lines |-> << >>]}
    /\ limit = LOG_LIMIT
    /\ tie \in TieOrders
    /\ df = << >>
    /\ corrected_q = << >>
    /\ Fresh

Next ==
    \/ ParseNginxLogs
    \/ OpenFails
    \/ ExitNoLogs
    \/ Startup
    \/ ReadInput
    \/ Quit
    \/ CorrectSpelling
    \/ Summarize
    \/ ShowAnomalies
    \/ ShowTables
    \/ AskAI

Spec == Init /\ [][Next]_vars

(* parse_nginx_logs called with any limit, on any file.                    *)
InitLoad ==
    /\ pc = "start"
    /\ source \in Sources
    /\ limit \in 0..MaxLimit
    /\ tie = "first_seen"
    /\ df = << >>
    /\ corrected_q = << >>
    /\ Fresh

NextLoad == ParseNginxLogs \/ OpenFails

SpecLoad == InitLoad /\ [][NextLoad]_vars

(* The analysis of one turn, on any DataFrame.                             *)
Token(n) == [j \in 1..n |-> "a"]

AggRows ==
    {Rec(T("a"), T("/"), S200), Rec(T("b"), T("/"), S500),
     Rec(T("c"), T("x"), S503), Rec(T("d"), T("x"), S500),
     Rec(T("a"), T("x"), S404)}

ManyKeys == [i \in 1..MaxKeys |-> Rec(Token(i), Token(i), S200)]

Frames ==
    SeqsUpTo(AggRows, MaxRows) \cup
    {ManyKeys \o more :
        more \in SeqsUpTo({ManyKeys[MaxKeys], ManyKeys[2],
                           Rec(T("x"), Token(MaxKeys), S503)}, 2)}

InitAgg ==
    /\ pc = "summarize"
    /\ source = [status |-> "ok", lines |-> << >>]
    /\ limit = LOG_LIMIT
    /\ tie \in TieOrders
    /\ df \in Frames
    /\ corrected_q \in {<<"t", "o", "p", " ", "a", "n", "o", "m", "a", "l", "y">>, <<"h", "i">>}
    /\ Fresh

NextAgg == Summarize \/ ShowAnomalies \/ ShowTables

SpecAgg == InitAgg /\ [][NextAgg]_vars

----------------------------------------------------------------------------
(* Properties of the loader.                                               *)

Min(a, b) == IF a < b THEN a ELSE b

(* The last min(L, M) lines of a source of M lines.                        *)
LastMin(lines, L) ==
    SubSeq(lines, Len(lines) - Min(L, Len(lines)) + 1, Len(lines))

(* The line is a sentence of the grammar, from its first character to its  *)
(* last.                                                                   *)
Conforms(line) == MatchFrom(line, 1, 1, TRUE)

Returned == pc = "loaded" /\ source.status = "ok"

(* C1: parse_nginx_logs with limit L on a source of M lines returns, in    *)
(* input order, exactly the entries of the last min(L, M) lines that       *)
(* parse, so at most min(L, M) entries.                                    *)
C1_LastLinesOnly ==
    Returned =>
        /\ logs = Entries(LastMin(source.lines, limit))
        /\ Len(logs) <= Min(limit, Len(source.lines))

(* C2: a line gives an entry only if the whole line is a sentence of the   *)
(* grammar: the entries returned are as many as the conforming lines among *)
(* the lines the loader read, and every line it read that does not conform *)
(* has no match.                                                           *)
C2_NonConformingDropped ==
    Returned =>
        LET read == LastLines(source.lines, limit)
        IN  /\ \A i \in DOMAIN read :
                  ~Conforms(read[i]) => ~Search(read[i]).matched
            /\ Len(logs) = Cardinality({i \in DOMAIN read : Conforms(read[i])})

----------------------------------------------------------------------------
(* Properties of the start of the program.                                 *)

ReadableSources ==
    {[status |-> "ok", lines |-> f] : f \in SeqsUpTo(StoreLines, MaxStore)}

(* C3: for a missing file the loader returns something no readable file    *)
(* gives, and what is reported for a missing file differs from what is     *)
(* reported for a readable file without entries.                           *)
C3_UnavailableIsExplicit ==
    /\ (pc = "loaded" /\ source.status = "missing") =>
          \A src \in ReadableSources : logs # parse_nginx_logs(src, limit)
    /\ (pc = "exited" /\ exitStatus = 1 /\ source.status = "missing") =>
          console # <<MsgNoLogs>>

----------------------------------------------------------------------------
(* Properties of the analysis.                                             *)

Keys(m) == {m[i][1] : i \in DOMAIN m}

Values(col) == {col[i] : i \in DOMAIN col}

Occurrences(col, k) == Cardinality({i \in DOMAIN col : col[i] = k})

FirstSeen(col, k) == SetMin({i \in DOMAIN col : col[i] = k})

(* m maps each value of the column, once, to the number of its rows.       *)
IsCounting(m, col) ==
    /\ Len(m) = Cardinality(Keys(m))
    /\ Keys(m) = Values(col)
    /\ \A i \in DOMAIN m : m[i][2] = Occurrences(col, m[i][1])

CountDescending(m) == \A i \in 1..(Len(m) - 1) : m[i][2] >= m[i + 1][2]

DigitValue(c) ==
    CHOOSE n \in 0..9 :
        <<"0", "1", "2", "3", "4", "5", "6", "7", "8", "9">>[n + 1] = c

CodeValue(s) == 100 * DigitValue(s[1]) + 10 * DigitValue(s[2]) + DigitValue(s[3])

(* Equal counts in ascending order of the status code.                     *)
TiesByCode(m) ==
    \A i \in 1..(Len(m) - 1) :
        m[i][2] = m[i + 1][2] => CodeValue(m[i][1]) < CodeValue(m[i + 1][1])

(* Equal counts in the order the values first appear in the column.        *)
TiesByFirstSeen(m, col) ==
    \A i \in 1..(Len(m) - 1) :
        m[i][2] = m[i + 1][2] => FirstSeen(col, m[i][1]) < FirstSeen(col, m[i + 1][1])

StatusColumn == [i \in DOMAIN df |-> df[i].status]
IpColumn == [i \in DOMAIN df |-> df[i].ip]
UrlColumn == [i \in DOMAIN df |-> df[i].url]

FiveColumn == SelectSeq(StatusColumn, LAMBDA s : Head(s) = "5")

(* summary and anomalies hold the analysis of df.                          *)
Analysed == pc \in {"anomalies", "tables", "ask"}

AnomalyCounts == IF anomalies = << >> THEN << >> ELSE anomalies[1][2]

(* C5 as claimed: detect_anomalies returns the mapping from each status    *)
(* code of the store that starts with 5 to the number of its records.      *)
C5_MapsCodeToCount == Analysed => IsCounting(anomalies, FiveColumn)

(* C5: detect_anomalies returns the empty mapping for a store without a    *)
(* status that starts with 5, and otherwise the mapping with the one key   *)
(* 5xx_errors, whose value maps each such status code of the store to the  *)
(* number of its records; for the statuses 500, 500, 503 that value is     *)
(* {"500": 2, "503": 1}.                                                   *)
C5_WrappedCounts ==
    Analysed =>
        /\ IF FiveColumn = << >>
           THEN anomalies = << >>
           ELSE /\ Len(anomalies) = 1
                /\ anomalies[1][1] = K5xx
                /\ IsCounting(anomalies[1][2], FiveColumn)
        /\ StatusColumn = <<S500, S500, S503>> =>
              AnomalyCounts = << <<S500, 2>>, <<S503, 1>> >>

C5_Witness == Analysed /\ StatusColumn = <<S500, S500, S503>>

(* C6 as claimed: status_counts and the 5xx counts list the groups by      *)
(* count descending, equal counts by ascending status code.                *)
C6_TiesAscendingCode ==
    Analysed =>
        /\ IsCounting(summary.status_counts, StatusColumn)
        /\ CountDescending(summary.status_counts)
        /\ TiesByCode(summary.status_counts)
        /\ CountDescending(AnomalyCounts)
        /\ TiesByCode(AnomalyCounts)

(* C6: status_counts has one group for each exact status string of the     *)
(* store, with the number of its records, and lists the groups by count    *)
(* descending; so do the 5xx counts.  Nothing orders equal counts by       *)
(* status code.                                                            *)
C6_CountDescending ==
    Analysed =>
        /\ IsCounting(summary.status_counts, StatusColumn)
        /\ CountDescending(summary.status_counts)
        /\ IsCounting(AnomalyCounts, FiveColumn)
        /\ CountDescending(AnomalyCounts)

C6_Witness ==
    /\ Analysed
    /\ ~TiesByCode(summary.status_counts)
    /\ Len(AnomalyCounts) >= 2
    /\ \E i \in DOMAIN summary.status_counts :
          summary.status_counts[i][2] > summary.status_counts[Len(summary.status_counts)][2]

(* m holds the n groups of the column with the highest counts (all the     *)
(* groups when there are fewer), by count descending.                      *)
TopGroups(m, col, n) ==
    /\ Len(m) = Min(n, Cardinality(Values(col)))
    /\ Len(m) = Cardinality(Keys(m))
    /\ Keys(m) \subseteq Values(col)
    /\ \A i \in DOMAIN m : m[i][2] = Occurrences(col, m[i][1])
    /\ CountDescending(m)
    /\ \A k \in Values(col) \ Keys(m) :
          \A i \in DOMAIN m : Occurrences(col, k) <= m[i][2]

(* Among equal counts the groups that appear first are the ones kept, in   *)
(* the order they appear.                                                  *)
FirstSeenFirst(m, col) ==
    /\ TiesByFirstSeen(m, col)
    /\ \A k \in Values(col) \ Keys(m) :
          \A i \in DOMAIN m :
              Occurrences(col, k) = m[i][2] => FirstSeen(col, m[i][1]) < FirstSeen(col, k)

TablesShown == \E i \in DOMAIN console : console[i].kind = "top ips"

Shown(kind) == console[CHOOSE i \in DOMAIN console : console[i].kind = kind].body

(* C7 as claimed: the top 3 of the summary and the top 10 of the tables    *)
(* are by count descending with equal counts by first appearance, and the  *)
(* top 3 is the first 3 rows of the top 10.                                *)
C7_TiesFirstSeen ==
    /\ Analysed =>
          /\ TopGroups(summary.top_ips, IpColumn, 3)
          /\ FirstSeenFirst(summary.top_ips, IpColumn)
          /\ TopGroups(summary.top_urls, UrlColumn, 3)
          /\ FirstSeenFirst(summary.top_urls, UrlColumn)
    /\ (pc = "ask" /\ TablesShown) =>
          /\ TopGroups(Shown("top ips"), IpColumn, 10)
          /\ FirstSeenFirst(Shown("top ips"), IpColumn)
          /\ TopGroups(Shown("top urls"), UrlColumn, 10)
          /\ FirstSeenFirst(Shown("top urls"), UrlColumn)
          /\ summary.top_ips = HeadN(Shown("top ips"), 3)
          /\ summary.top_urls = HeadN(Shown("top urls"), 3)

(* C7: top_ips and top_urls hold at most 3 groups, the ones with the       *)
(* highest counts, by count descending; the tables hold the top 10 in the  *)
(* same order, so the top 3 is the first 3 rows of the top 10.  The order  *)
(* of equal counts is the one the sort leaves, the same in both.           *)
C7_TopByCount ==
    /\ Analysed =>
          /\ TopGroups(summary.top_ips, IpColumn, 3)
          /\ TopGroups(summary.top_urls, UrlColumn, 3)
    /\ (pc = "ask" /\ TablesShown) =>
          /\ TopGroups(Shown("top ips"), IpColumn, 10)
          /\ TopGroups(Shown("top urls"), UrlColumn, 10)
          /\ summary.top_ips = HeadN(Shown("top ips"), 3)
          /\ summary.top_urls = HeadN(Shown("top urls"), 3)

C7_Witness ==
    /\ pc = "ask"
    /\ TablesShown
    /\ Cardinality(Values(IpColumn)) > 10
    /\ Len(Shown("top ips")) = 10
    /\ Len(summary.top_ips) = 3
    /\ summary.top_ips[1][2] > summary.top_ips[3][2]
    /\ ~TiesByFirstSeen(summary.top_ips, IpColumn)

----------------------------------------------------------------------------
(* Properties of the program and its question loop.                        *)

InLoop == pc \in {"prompt", "input", "summarize", "anomalies", "tables", "ask"}

InTurn == pc \in {"input", "summarize", "anomalies", "tables", "ask"}

Ended == pc \in {"exited", "crashed"}

(* The file is missing or unreadable, or the loader returned no entry.     *)
NothingLoaded == source.status # "ok" \/ (pc # "start" /\ logs = << >>)

LastShown == console[Len(console)]

(* C4: with a missing or unreadable file, or no entry loaded, the program  *)
(* reports it and ends with a status other than 0 and never enters the     *)
(* loop: no input is read, no backend call made.  In the loop the store    *)
(* holds at least one entry.                                               *)
C4_NoLoopWithoutStore ==
    /\ InLoop => (Len(df) >= 1 /\ df = logs)
    /\ NothingLoaded =>
          /\ ~InLoop
          /\ turns = 0
          /\ typed = << >>
          /\ backend = << >>
          /\ Ended => (exitStatus = 1 /\ console # << >>)
    /\ (Ended /\ turns = 0) => exitStatus = 1

C4_Witness ==
    /\ pc = "exited"
    /\ exitStatus = 1
    /\ source.status = "ok"
    /\ Len(source.lines) >= 1

HasWord(text, w) == Contains(Lower(text), w)

AsksAnomalies == HasWord(corrected_q, <<"a", "n", "o", "m", "a", "l", "y">>)

AsksTables ==
    \E w \in {<<"s", "t", "a", "t", "u", "s">>, <<"i", "p">>, <<"u", "r", "l">>, <<"t", "a", "b", "l", "e">>, <<"t", "o", "p">>} : HasWord(corrected_q, w)

AnomalyKinds == {"anomalies detected", "no major anomalies"}

AnomalyPanelAdded ==
    /\ Len(console') = Len(console) + 1
    /\ console'[Len(console')].kind \in AnomalyKinds

TablesAdded ==
    /\ Len(console') = Len(console) + 3
    /\ console'[Len(console) + 1].kind = "status codes"
    /\ console'[Len(console) + 2].kind = "top ips"
    /\ console'[Len(console) + 3].kind = "top urls"

(* C8: the anomaly panel is shown exactly when the corrected question, in  *)
(* lower case, contains "anomaly", and the tables exactly when it contains *)
(* one of "status", "ip", "url", "table", "top"; nothing else is shown by  *)
(* these two steps, whatever the store holds.                              *)
C8_DisplayDecisions ==
    [][ /\ pc = "anomalies" =>
              /\ AnomalyPanelAdded <=> AsksAnomalies
              /\ ~AsksAnomalies => console' = console
        /\ pc = "tables" =>
              /\ TablesAdded <=> AsksTables
              /\ ~AsksTables => console' = console ]_vars

C8_Witness ==
    /\ pc = "ask"
    /\ corrected_q # q
    /\ AsksAnomalies
    /\ ~AsksTables
    /\ LastShown.kind \in AnomalyKinds

(* C9: every question that is not an exit keyword makes one backend call,  *)
(* and an exit keyword none; a call that times out or finds no executable  *)
(* gives its sentinel answer, which is shown, and the program goes back to *)
(* the prompt, still running, with the store as it was.                    *)
C9_OneCallPerQuestion ==
    /\ [](/\ pc = "prompt" => Len(backend) = turns
          /\ InTurn => Len(backend) = turns - 1
          /\ (pc = "exited" /\ turns >= 1) => Len(backend) = turns - 1
          /\ (pc = "prompt" /\ backend # << >>) =>
                /\ backend[Len(backend)].ended = "timeout" => answer = TimedOut
                /\ backend[Len(backend)].ended = "missing" => answer = NotInstalled
                /\ LastShown.kind = "answer"
                /\ LastShown.body = answer
                /\ exitStatus = -1)
    /\ [][ /\ backend' # backend =>
                 /\ pc = "ask"
                 /\ Len(backend') = Len(backend) + 1
                 /\ SubSeq(backend', 1, Len(backend)) = backend
           /\ pc = "ask" => (pc' = "prompt" /\ exitStatus' = -1)
           /\ InLoop => (df' = df /\ logs' = logs) ]_vars

C9_Witness ==
    /\ pc = "prompt"
    /\ Len(backend) = 2
    /\ backend[1].ended = "timeout"
    /\ backend[2].ended = "missing"
    /\ console[Len(console) - 1].kind # "answer"

Blank(text) == \A i \in DOMAIN text : text[i] = SP

(* The text is exit or quit in any case between leading and trailing       *)
(* blanks.                                                                 *)
ExitKeyword(text) ==
    \E i \in 1..(Len(text) + 1) : \E j \in 0..Len(text) :
        /\ Blank(SubSeq(text, 1, i - 1))
        /\ Blank(SubSeq(text, j + 1, Len(text)))
        /\ Lower(SubSeq(text, i, j)) \in {<<"e", "x", "i", "t">>, <<"q", "u", "i", "t">>}

====
